---- MODULE Spec2Model ----
(***************************************************************************)
(* Model of the proxy validation engine of proxy_checker.py (class         *)
(* ProxyChecker, function main) and of the checking phase of               *)
(* proxy_tool.main.                                                        *)
(*                                                                         *)
(* Threads: the main thread (load_proxies, submit, as_completed, the       *)
(* executor's __exit__, display_results, save_results) and the worker      *)
(* threads of the ThreadPoolExecutor, each running check_proxy on the      *)
(* work items it takes from the executor's FIFO queue.                     *)
(*                                                                         *)
(* The operator interrupt is a KeyboardInterrupt, which Python raises in   *)
(* the main thread only.                                                   *)
(***************************************************************************)
EXTENDS Integers, Sequences, FiniteSets, TLC

\* ------------------------------------------------------------------------
\* Bounds of the model
\* ------------------------------------------------------------------------
MaxLines == 3          \* longest candidate file (number of lines)
MaxPool == 2           \* largest max_workers
MaxInterval == 2       \* largest save_interval
MaxBucket == 1         \* longest bucket handed to a drain on its own
MaxDrains == 2         \* drains called one after the other
MaxRaw == 2            \* longest candidate file with lines that need trimming
MaxClock == 9          \* last tick of the wall clock
MaxRuns == 3           \* most ProxyChecker instances created
TicksPerSecond == 2    \* resolution of the wall clock: ticks in one second
MaxLive == 2           \* longest candidate file of the runs checked for termination

\* ------------------------------------------------------------------------
\* Endpoints, dialects, buckets
\* ------------------------------------------------------------------------
\* A line of text is a sequence of characters.  A run of non-blank
\* characters that nothing looks into is written as one character, so the
\* endpoint 1.2.3.4:8080 is the one-character line <<"1.2.3.4:8080">>.
Endpoints == {<<"1.2.3.4:8080">>, <<"5.6.7.8:3128">>, <<"9.9.9.9:1080">>}

\* the empty line
BlankLine == <<>>

Dialects == {"http", "https", "socks4", "socks5"}

Buckets == Dialects \cup {"failed"}

\* the order in which both drains go through the buckets
BucketOrder == <<"http", "https", "socks4", "socks5", "failed">>

\* The probe layer: what the network answers for each endpoint and dialect.
\* The probes are stateless and absorb every error as False, so the layer is
\* a function endpoint -> set of dialects whose probe returns True.
Nets ==
  { [e \in Endpoints |->
       CASE e = <<"1.2.3.4:8080">> -> {"http"}
         [] e = <<"5.6.7.8:3128">> -> {}
         [] OTHER                  -> {"http", "https", "socks5"}],
    [e \in Endpoints |->
       CASE e = <<"1.2.3.4:8080">> -> {}
         [] e = <<"5.6.7.8:3128">> -> {"socks4"}
         [] OTHER                  -> {"https", "socks4"}] }

Entries == {"checker_main", "tool_main"}

NoTask == 0
NoOwner == 0

VARIABLES
  entry,            \* which main() started the run
  source_ok,        \* the candidate file exists and can be read
  lines,            \* the lines of the candidate file
  net,              \* the probe layer of this run
  max_workers,      \* self.max_workers
  save_interval,    \* self.save_interval
  proxies,          \* run_check's local list of candidates
  total_proxies,    \* self.total_proxies
  checked_proxies,  \* self.checked_proxies
  last_save_count,  \* self.last_save_count
  bucket,           \* working_http .. working_socks5, failed_proxies
  total,            \* total_working_http .. total_failed_proxies
  file,             \* contents of the five output files
  lock,             \* owner of self.lock (NoOwner when free)
  queue,            \* the executor's work queue (indices into proxies)
  fut,              \* state of the future of each submitted candidate
  wpc,              \* position of each worker thread
  task,             \* the work item a worker is running
  results,          \* check_proxy's local results of each worker
  mainpc,           \* position of the main thread
  submitted,        \* how many candidates the main thread has submitted
  savei,            \* save_results: index of the next bucket in BucketOrder
  interrupted,      \* a KeyboardInterrupt has been raised
  raising,          \* the KeyboardInterrupt is unwinding through the with block
  reported,         \* the totals printed by display_results (last summary)
  saveCalls,        \* history: number of calls of save_results
  recordCount,      \* history: executions of the record section per endpoint
  appendLog,        \* history: everything ever appended to each bucket
  reported_tested,  \* "Total proxies tested" of the last summary
  unwritable,       \* buckets whose output file cannot be opened now
  drainLog,         \* history: the drains called one after the other
  now,              \* the wall clock, in ticks
  names,            \* file_names of the ProxyChecker instances created
  behaviour,        \* what the network does to each probe of one endpoint
  outcome,          \* how each probe of that endpoint ended
  all_proxies,      \* ProxyScraper.all_proxies
  proxy_file,       \* the lines of proxy_list.txt
  scraper_lock,     \* owner of ProxyScraper.lock
  spc,              \* where each scrape_page worker is
  found,            \* proxies of the worker's page still to go through
  cur               \* the proxy a scrape_page worker is looking at

vars == <<entry, source_ok, lines, net, max_workers, save_interval, proxies, total_proxies,
          checked_proxies, last_save_count, bucket, total, file, lock, queue,
          fut, wpc, task, results, mainpc, submitted, savei, interrupted,
          raising, reported, saveCalls, recordCount, appendLog,
          reported_tested, unwritable, drainLog, now, names, behaviour,
          outcome, all_proxies, proxy_file, scraper_lock, spc, found, cur>>

Workers == 1..MaxPool

\* ------------------------------------------------------------------------
\* Helpers on sequences
\* ------------------------------------------------------------------------
Range(s) == {s[i] : i \in 1..Len(s)}

RECURSIVE Occ(_, _)
Occ(x, s) == IF s = <<>> THEN 0
             ELSE (IF Head(s) = x THEN 1 ELSE 0) + Occ(x, Tail(s))

RECURSIVE SeqsUpTo(_, _)
SeqsUpTo(S, n) ==
  IF n = 0 THEN {<<>>}
  ELSE LET shorter == SeqsUpTo(S, n - 1)
       IN shorter \cup {Append(s, x) : s \in {t \in shorter : Len(t) = n - 1}, x \in S}

\* ------------------------------------------------------------------------
\* load_proxies: list(set(all_lines)).  The iteration order of a Python set
\* is unspecified; the list is modelled in order of first occurrence, and
\* Init ranges over every order of the lines, so every order of the distinct
\* candidates is covered.
\* ------------------------------------------------------------------------
RECURSIVE Dedup(_)
Dedup(s) ==
  IF s = <<>> THEN <<>>
  ELSE LET front == Dedup(SubSeq(s, 1, Len(s) - 1))
           last == s[Len(s)]
       IN IF last \in Range(front) THEN front ELSE Append(front, last)

\* characters that str.strip() removes
Whitespace == {" ", "\t"}

RECURSIVE lstrip(_)
lstrip(line) ==
  IF line # <<>> /\ Head(line) \in Whitespace THEN lstrip(Tail(line)) ELSE line

RECURSIVE rstrip(_)
rstrip(line) ==
  IF line # <<>> /\ line[Len(line)] \in Whitespace
  THEN rstrip(SubSeq(line, 1, Len(line) - 1))
  ELSE line

strip_left_only(line) == lstrip(line)

\* line.strip(): leading and trailing whitespace removed, the rest kept
strip(line) == rstrip(lstrip(line))

NonEmpty(line) == line # <<>>

\* line 65: [line.strip() for line in f if line.strip()]
all_lines(raw) ==
  SelectSeq([i \in 1..Len(raw) |-> strip(raw[i])], NonEmpty)

ReturnedIgnoringError(ok, result) == result

\* lines 62 and 80-85: any exception of open() or of the read returns []
ReturnedOrEmpty(ok, result) == IF ok THEN result ELSE <<>>

load_proxies_keeping_duplicates(ok, raw) == ReturnedOrEmpty(ok, all_lines(raw))

load_proxies(ok, raw) == ReturnedOrEmpty(ok, Dedup(all_lines(raw)))

\* lines 68-70: original_count - unique_count, printed at lines 73-77
duplicates_removed(raw) == Len(all_lines(raw)) - Len(Dedup(all_lines(raw)))

\* ------------------------------------------------------------------------
\* The four probes of check_proxy
\* ------------------------------------------------------------------------
test_http_proxy(proxy) == "http" \in net[proxy]
test_https_proxy(proxy) == "https" \in net[proxy]
test_socks4_proxy(proxy) == "socks4" \in net[proxy]
test_socks5_proxy(proxy) == "socks5" \in net[proxy]

NoResults == [d \in Dialects |-> FALSE]

ProbeResultsUntilFirstSuccess(proxy) ==
  [d \in Dialects |->
     \E j \in 1..4 :
       /\ BucketOrder[j] = d
       /\ d \in net[proxy]
       /\ \A k \in 1..(j - 1) : BucketOrder[k] \notin net[proxy]]

\* lines 206-228: the results dict after the four "if self.test_..." in a
\* row, none of them nested in or skipped by another
ProbeResults(proxy) ==
  [d \in Dialects |->
     CASE d = "http"   -> test_http_proxy(proxy)
       [] d = "https"  -> test_https_proxy(proxy)
       [] d = "socks4" -> test_socks4_proxy(proxy)
       [] d = "socks5" -> test_socks5_proxy(proxy)]

\* ------------------------------------------------------------------------
\* The record section of check_proxy
\* ------------------------------------------------------------------------
LockFreeAlways(l) == TRUE

\* threading.Lock: acquire succeeds only when nobody holds it
LockFree(l) == l = NoOwner

IsFailedOnlyHttp(res) == ~res["http"]

\* not any([...]) of line 243
IsFailed(res) == ~(res["http"] \/ res["https"] \/ res["socks4"] \/ res["socks5"])

\* lines 234-244: the bucket b after the appends of one candidate
Appended(bk, res, proxy) ==
  [b \in Buckets |->
     IF b = "failed"
     THEN (IF IsFailed(res) THEN Append(bk[b], proxy) ELSE bk[b])
     ELSE (IF res[b] THEN Append(bk[b], proxy) ELSE bk[b])]

BoundaryCrossedLate(checked, last, interval) == checked - last > interval

\* line 247
BoundaryCrossed(checked, last, interval) == checked - last >= interval

\* ------------------------------------------------------------------------
\* The drains
\* ------------------------------------------------------------------------
HasEntriesAlways(bk, b) == TRUE

\* "if self.working_http:", the test in front of every block of both drains
HasEntries(bk, b) == bk[b] # <<>>

\* '\n'.join(bucket) + '\n': the lines of the bucket, one empty line when
\* the bucket is empty
JoinedLines(bk, b) == IF bk[b] = <<>> THEN <<BlankLine>> ELSE bk[b]

WrittenTruncating(f, bk, b) == JoinedLines(bk, b)

\* open(name, 'a') and f.write('\n'.join(bucket) + '\n')
Written(f, bk, b) == f[b] \o JoinedLines(bk, b)

AddedOverwriting(t, bk, b) == Len(bk[b])

AddedWithWrongSign(t, bk, b) == t[b] - Len(bk[b])

\* total_... += len(bucket)
Added(t, bk, b) == t[b] + Len(bk[b])

KeptBuckets(bk, b) == bk

\* bucket.clear()
ClearedBuckets(bk, b) == [bk EXCEPT ![b] = <<>>]

\* the state a drain works on; raised: an OSError has left the drain
DrainState(f, t, bk) == [file |-> f, total |-> t, bucket |-> bk, raised |-> FALSE]

\* one block of save_intermediate_results, e.g. lines 151-155: write, add
\* to the total, clear.  open() raises when the file cannot be opened.
IntermediateBlock(st, b, unw) ==
  IF st.raised \/ ~HasEntries(st.bucket, b) THEN st
  ELSE IF b \in unw THEN [st EXCEPT !.raised = TRUE]
  ELSE [file |-> [st.file EXCEPT ![b] = Written(st.file, st.bucket, b)],
        total |-> [st.total EXCEPT ![b] = Added(st.total, st.bucket, b)],
        bucket |-> ClearedBuckets(st.bucket, b),
        raised |-> FALSE]

\* lines 151-180: the five blocks in order
save_intermediate_results(f, t, bk, unw) ==
  LET s1 == IntermediateBlock(DrainState(f, t, bk), BucketOrder[1], unw)
      s2 == IntermediateBlock(s1, BucketOrder[2], unw)
      s3 == IntermediateBlock(s2, BucketOrder[3], unw)
      s4 == IntermediateBlock(s3, BucketOrder[4], unw)
  IN IntermediateBlock(s4, BucketOrder[5], unw)

\* one block of save_results, e.g. lines 291-295: write, add to the total;
\* the bucket is left as it is
FinalBlock(st, b, unw) ==
  IF st.raised \/ ~HasEntries(st.bucket, b) THEN st
  ELSE IF b \in unw THEN [st EXCEPT !.raised = TRUE]
  ELSE [file |-> [st.file EXCEPT ![b] = Written(st.file, st.bucket, b)],
        total |-> [st.total EXCEPT ![b] = Added(st.total, st.bucket, b)],
        bucket |-> st.bucket,
        raised |-> FALSE]

\* lines 288-319: the five blocks in order
save_results(f, t, bk, unw) ==
  LET s1 == FinalBlock(DrainState(f, t, bk), BucketOrder[1], unw)
      s2 == FinalBlock(s1, BucketOrder[2], unw)
      s3 == FinalBlock(s2, BucketOrder[3], unw)
      s4 == FinalBlock(s3, BucketOrder[4], unw)
  IN FinalBlock(s4, BucketOrder[5], unw)

\* ------------------------------------------------------------------------
\* Initial state: after ProxyChecker.__init__, before run_check
\* ------------------------------------------------------------------------
\* everything __init__ sets that is not a parameter of the run
Constructed ==
  /\ proxies = <<>>
  /\ total_proxies = 0
  /\ checked_proxies = 0
  /\ last_save_count = 0
  /\ total = [b \in Buckets |-> 0]
  /\ file = [b \in Buckets |-> <<>>]
  /\ lock = NoOwner
  /\ queue = <<>>
  /\ fut = <<>>
  /\ wpc = [w \in Workers |-> "idle"]
  /\ task = [w \in Workers |-> NoTask]
  /\ results = [w \in Workers |-> NoResults]
  /\ submitted = 0
  /\ savei = 1
  /\ interrupted = FALSE
  /\ raising = FALSE
  /\ reported = [b \in Buckets |-> 0]
  /\ saveCalls = 0
  /\ recordCount = [e \in Endpoints |-> 0]
  /\ appendLog = [b \in Buckets |-> <<>>]
  /\ reported_tested = 0
  /\ unwritable = {}
  /\ drainLog = <<>>
  /\ now = 0
  /\ names = <<>>

\* no probe is under observation on its own
ProbesIdle ==
  /\ behaviour = [d \in Dialects |-> "none"]
  /\ outcome = [d \in Dialects |-> "none"]

\* no ProxyScraper exists
ScraperIdle ==
  /\ all_proxies = {}
  /\ proxy_file = <<>>
  /\ scraper_lock = NoOwner
  /\ spc = [w \in Workers |-> "idle"]
  /\ found = [w \in Workers |-> {}]
  /\ cur = [w \in Workers |-> <<>>]

Init ==
  /\ entry \in Entries
  /\ \/ source_ok = TRUE /\ lines \in SeqsUpTo(Endpoints, MaxLines)
     \/ source_ok = FALSE /\ lines = <<>>
  /\ net \in Nets
  /\ max_workers \in 1..MaxPool
  /\ save_interval \in 1..MaxInterval
  /\ bucket = [b \in Buckets |-> <<>>]
  /\ mainpc = "load"
  /\ Constructed
  /\ ProbesIdle
  /\ ScraperIdle

\* groups of variables left unchanged together
inputVars == <<entry, source_ok, lines, net, max_workers, save_interval>>
storeVars == <<checked_proxies, last_save_count, bucket, total, file>>
poolVars == <<queue, fut, wpc, task, results>>
mainVars == <<mainpc, submitted, savei, interrupted, raising, reported,
             reported_tested, saveCalls>>
probeVars == <<behaviour, outcome>>
scraperVars == <<all_proxies, proxy_file, scraper_lock, spc, found, cur>>
sideVars == <<unwritable, drainLog, now, names, probeVars, scraperVars>>
histVars == <<recordCount, appendLog>>

\* ------------------------------------------------------------------------
\* Main thread: run_check
\* ------------------------------------------------------------------------
\* lines 260-262: load the candidates; an empty list ends the run at once.
\* total_proxies is assigned at line 72, which a read error never reaches
Load ==
  /\ mainpc = "load"
  /\ proxies' = load_proxies(source_ok, lines)
  /\ total_proxies' = IF source_ok THEN Len(proxies') ELSE total_proxies
  /\ mainpc' = IF proxies' = <<>> THEN "done" ELSE "submit"
  /\ UNCHANGED <<inputVars, sideVars, storeVars, poolVars, lock, submitted, savei,
                 interrupted, raising, reported, reported_tested, saveCalls, histVars>>

\* line 272: executor.submit(self.check_proxy, proxy) for the next candidate
Submit ==
  /\ mainpc = "submit"
  /\ submitted < Len(proxies)
  /\ submitted' = submitted + 1
  /\ queue' = Append(queue, submitted')
  /\ fut' = Append(fut, "pending")
  /\ mainpc' = IF submitted' = Len(proxies) THEN "wait" ELSE "submit"
  /\ UNCHANGED <<inputVars, sideVars, storeVars, proxies, total_proxies, lock, wpc, task,
                 results, savei, interrupted, raising, reported, reported_tested, saveCalls,
                 histVars>>

AllFinished == \A i \in 1..Len(fut) : fut[i] = "finished"

\* lines 275-280: as_completed yields every future once it is done
Wait ==
  /\ mainpc = "wait"
  /\ AllFinished
  /\ mainpc' = "join"
  /\ UNCHANGED <<inputVars, sideVars, storeVars, poolVars, proxies, total_proxies, lock,
                 submitted, savei, interrupted, raising, reported, reported_tested, saveCalls,
                 histVars>>

\* where an exception that leaves run_check lands: the handler of
\* proxy_checker.main (lines 369-372) calls display_results(0); proxy_tool.main
\* (line 122) has no handler and the process ends
Propagated == IF entry = "checker_main" THEN "display" ELSE "crashed"

PoolDrained == queue = <<>> /\ \A w \in Workers : wpc[w] = "idle"

\* line 270, __exit__ of the with block: shutdown(wait=True) joins the workers,
\* which first run every work item still in the queue; then either
\* display_results (line 283) or the pending KeyboardInterrupt goes on
Join ==
  /\ mainpc = "join"
  /\ PoolDrained
  /\ mainpc' = IF raising THEN Propagated ELSE "display"
  /\ raising' = FALSE
  /\ UNCHANGED <<inputVars, sideVars, storeVars, poolVars, proxies, total_proxies, lock,
                 submitted, savei, interrupted, reported, reported_tested, saveCalls, histVars>>

\* lines 325-346: the summary prints the cumulative totals, then calls
\* save_results; line 330 divides by total_proxies
Display ==
  /\ mainpc = "display"
  /\ IF total_proxies = 0
     THEN /\ mainpc' = "crashed"
          /\ UNCHANGED <<reported, reported_tested, saveCalls, savei>>
     ELSE /\ reported' = total
          /\ reported_tested' = total_proxies
          /\ saveCalls' = saveCalls + 1
          /\ savei' = 1
          /\ mainpc' = "save"
  /\ UNCHANGED <<inputVars, sideVars, storeVars, poolVars, proxies, total_proxies, lock,
                 submitted, interrupted, raising, histVars>>

\* where an OSError of save_results lands: "except Exception" of
\* proxy_checker.main (lines 373-374) prints it, unless it was raised inside
\* the KeyboardInterrupt handler; proxy_tool.main has no handler
Errored ==
  IF entry = "checker_main" /\ ~interrupted THEN "error" ELSE "crashed"

\* lines 291-319: save_results, one block at a time; nothing is cleared
SaveBucket ==
  /\ mainpc = "save"
  /\ LET st == FinalBlock(DrainState(file, total, bucket), BucketOrder[savei],
                          unwritable)
     IN /\ file' = st.file
        /\ total' = st.total
        /\ IF st.raised
           THEN savei' = savei /\ mainpc' = Errored
           ELSE IF savei < Len(BucketOrder)
                THEN savei' = savei + 1 /\ mainpc' = "save"
                ELSE savei' = savei /\ mainpc' = "done"
  /\ UNCHANGED <<inputVars, sideVars, poolVars, proxies, total_proxies, checked_proxies,
                 last_save_count, bucket, lock, submitted, interrupted, raising,
                 reported, reported_tested, saveCalls, histVars>>

\* KeyboardInterrupt in the main thread, anywhere inside run_check.  Inside
\* the with block (submit, as_completed) it first goes through __exit__;
\* elsewhere it leaves run_check at once.
Interrupt ==
  /\ ~interrupted
  /\ mainpc \in {"load", "submit", "wait", "join", "display", "save"}
  /\ interrupted' = TRUE
  /\ IF mainpc \in {"submit", "wait"}
     THEN mainpc' = "join" /\ raising' = TRUE
     ELSE mainpc' = Propagated /\ raising' = FALSE
  /\ UNCHANGED <<inputVars, sideVars, storeVars, poolVars, proxies, total_proxies, lock,
                 submitted, savei, reported, reported_tested, saveCalls, histVars>>

\* a second KeyboardInterrupt while __exit__ (line 270) is still joining the
\* workers after the first one: shutdown(wait=True) is left with the workers
\* running and the queue not empty, and the exception goes on to the handler
InterruptAgain ==
  /\ mainpc = "join"
  /\ raising
  /\ ~PoolDrained
  /\ mainpc' = Propagated
  /\ raising' = FALSE
  /\ UNCHANGED <<inputVars, sideVars, storeVars, poolVars, proxies, total_proxies, lock,
                 submitted, savei, interrupted, reported, reported_tested, saveCalls,
                 histVars>>

\* ------------------------------------------------------------------------
\* Worker threads: check_proxy
\* ------------------------------------------------------------------------
InPoolAlways(w, n) == TRUE

\* ThreadPoolExecutor(max_workers=n) starts at most n worker threads
InPool(w, n) == w <= n

\* a worker of the pool takes the oldest work item of the queue; shutdown
\* cancels nothing, so this goes on after an interrupt
Take(w) ==
  /\ InPool(w, max_workers)
  /\ wpc[w] = "idle"
  /\ queue # <<>>
  /\ task' = [task EXCEPT ![w] = Head(queue)]
  /\ queue' = Tail(queue)
  /\ fut' = [fut EXCEPT ![Head(queue)] = "running"]
  /\ wpc' = [wpc EXCEPT ![w] = "probe"]
  /\ UNCHANGED <<inputVars, sideVars, storeVars, mainVars, proxies, total_proxies, lock,
                 results, histVars>>

\* lines 206-228: the four probes, all of them, outside the lock
Probe(w) ==
  /\ wpc[w] = "probe"
  /\ results' = [results EXCEPT ![w] = ProbeResults(proxies[task[w]])]
  /\ wpc' = [wpc EXCEPT ![w] = "lock"]
  /\ UNCHANGED <<inputVars, sideVars, storeVars, mainVars, proxies, total_proxies, lock,
                 queue, fut, task, histVars>>

\* line 231: with self.lock
Acquire(w) ==
  /\ wpc[w] = "lock"
  /\ LockFree(lock)
  /\ lock' = w
  /\ wpc' = [wpc EXCEPT ![w] = "count"]
  /\ UNCHANGED <<inputVars, sideVars, storeVars, mainVars, proxies, total_proxies, queue,
                 fut, task, results, histVars>>

\* line 232
Count(w) ==
  /\ wpc[w] = "count"
  /\ checked_proxies' = checked_proxies + 1
  /\ recordCount' = [recordCount EXCEPT ![proxies[task[w]]] = @ + 1]
  /\ wpc' = [wpc EXCEPT ![w] = "append"]
  /\ UNCHANGED <<inputVars, sideVars, mainVars, proxies, total_proxies, last_save_count,
                 bucket, total, file, lock, queue, fut, task, results, appendLog>>

\* lines 234-244
AppendResults(w) ==
  /\ wpc[w] = "append"
  /\ bucket' = Appended(bucket, results[w], proxies[task[w]])
  /\ appendLog' = Appended(appendLog, results[w], proxies[task[w]])
  /\ wpc' = [wpc EXCEPT ![w] = "checkpoint"]
  /\ UNCHANGED <<inputVars, sideVars, mainVars, proxies, total_proxies, checked_proxies,
                 last_save_count, total, file, lock, queue, fut, task, results,
                 recordCount>>

LeftHoldingLock(w) ==
  /\ lock' = lock
  /\ fut' = [fut EXCEPT ![task[w]] = "finished"]
  /\ task' = [task EXCEPT ![w] = NoTask]
  /\ results' = [results EXCEPT ![w] = NoResults]
  /\ wpc' = [wpc EXCEPT ![w] = "idle"]

\* check_proxy is left, by its return or by an exception: the with block
\* releases the lock and the future of the work item is done (as_completed
\* yields it; an exception is printed at lines 278-280)
Left(w) ==
  /\ lock' = NoOwner
  /\ fut' = [fut EXCEPT ![task[w]] = "finished"]
  /\ task' = [task EXCEPT ![w] = NoTask]
  /\ results' = [results EXCEPT ![w] = NoResults]
  /\ wpc' = [wpc EXCEPT ![w] = "idle"]

\* lines 247-248 with save_intermediate_results (lines 151-183) inline; an
\* OSError of a block skips the rest of the drain, line 183 and the
\* progress line
Checkpoint(w) ==
  /\ wpc[w] = "checkpoint"
  /\ IF BoundaryCrossed(checked_proxies, last_save_count, save_interval)
     THEN LET st == save_intermediate_results(file, total, bucket, unwritable)
          IN /\ file' = st.file
             /\ total' = st.total
             /\ bucket' = st.bucket
             /\ IF st.raised
                THEN /\ last_save_count' = last_save_count
                     /\ Left(w)
                ELSE /\ last_save_count' = checked_proxies
                     /\ wpc' = [wpc EXCEPT ![w] = "progress"]
                     /\ UNCHANGED <<lock, fut, task, results>>
     ELSE /\ wpc' = [wpc EXCEPT ![w] = "progress"]
          /\ UNCHANGED <<file, total, bucket, last_save_count, lock, fut, task,
                         results>>
  /\ UNCHANGED <<inputVars, sideVars, mainVars, proxies, total_proxies,
                 checked_proxies, queue, histVars>>

ReleaseCountingAgain(w) ==
  /\ wpc[w] = "progress"
  /\ Left(w)
  /\ checked_proxies' = checked_proxies + 1
  /\ UNCHANGED <<inputVars, sideVars, mainVars, proxies, total_proxies, queue,
                 histVars, last_save_count, bucket, total, file>>

\* lines 251-256: the progress line, the end of the with block and the
\* return, which completes the future
Release(w) ==
  /\ wpc[w] = "progress"
  /\ Left(w)
  /\ UNCHANGED <<inputVars, sideVars, storeVars, mainVars, proxies, total_proxies, queue,
                 histVars>>

Next ==
  \/ Load
  \/ Submit
  \/ Wait
  \/ Join
  \/ Display
  \/ SaveBucket
  \/ Interrupt
  \/ \E w \in Workers : Take(w)
  \/ \E w \in Workers : Probe(w)
  \/ \E w \in Workers : Acquire(w)
  \/ \E w \in Workers : Count(w)
  \/ \E w \in Workers : AppendResults(w)
  \/ \E w \in Workers : Checkpoint(w)
  \/ \E w \in Workers : Release(w)

Spec == Init /\ [][Next]_vars

\* ------------------------------------------------------------------------
\* Runs of proxy_checker.main in which the operator may press Ctrl-C a
\* second time while the first interrupt is still waiting for the pool
\* ------------------------------------------------------------------------
AgainInit == Init /\ source_ok /\ entry = "checker_main"

AgainNext ==
  \/ Load
  \/ Submit
  \/ Wait
  \/ Join
  \/ Display
  \/ SaveBucket
  \/ Interrupt
  \/ InterruptAgain
  \/ \E w \in Workers : Take(w)
  \/ \E w \in Workers : Probe(w)
  \/ \E w \in Workers : Acquire(w)
  \/ \E w \in Workers : Count(w)
  \/ \E w \in Workers : AppendResults(w)
  \/ \E w \in Workers : Checkpoint(w)
  \/ \E w \in Workers : Release(w)

SpecAgain == AgainInit /\ [][AgainNext]_vars

\* ------------------------------------------------------------------------
\* Runs over any candidate source: blank lines, lines with whitespace around
\* the endpoint, and a source that cannot be read (missing, or a read error
\* on a file that has content)
\* ------------------------------------------------------------------------
SourceLines ==
  {BlankLine, <<" ">>, <<"1.2.3.4:8080">>, <<"\t", "5.6.7.8:3128", " ">>}

SourceInit ==
  /\ entry \in Entries
  /\ source_ok \in BOOLEAN
  /\ lines \in SeqsUpTo(SourceLines, MaxRaw)
  /\ net \in Nets
  /\ max_workers \in 1..MaxPool
  /\ save_interval \in 1..MaxInterval
  /\ bucket = [b \in Buckets |-> <<>>]
  /\ mainpc = "load"
  /\ Constructed
  /\ ProbesIdle
  /\ ScraperIdle

SpecSource == SourceInit /\ [][Next]_vars

\* ------------------------------------------------------------------------
\* load_proxies on its own, over files whose lines carry whitespace before,
\* after and inside the text, blank lines, and two spellings of one port
\* ------------------------------------------------------------------------
LoadLines ==
  {BlankLine, <<" ">>, <<"\t", " ">>,
   <<"1.2.3.4:80">>, <<" ", "1.2.3.4:80">>, <<"1.2.3.4:80", " ">>,
   <<"\t", "1.2.3.4:80", " ", "\t">>,
   <<"1.2.3.4:080">>, <<"1.2.3.4:080", "\t">>,
   <<"1.2.3.4:80", " ", "1.2.3.4:080">>}

LoadInit ==
  /\ entry = "checker_main"
  /\ source_ok \in BOOLEAN
  /\ lines \in SeqsUpTo(LoadLines, MaxLines)
  /\ net \in Nets
  /\ max_workers = 1
  /\ save_interval = 1
  /\ bucket = [b \in Buckets |-> <<>>]
  /\ mainpc = "load"
  /\ Constructed
  /\ ProbesIdle
  /\ ScraperIdle

SpecLoad == LoadInit /\ [][Load]_vars

\* ------------------------------------------------------------------------
\* Runs in which an output file can become unwritable (permissions, disk
\* full) and writable again while the run goes on; no interrupt
\* ------------------------------------------------------------------------
Running == mainpc \in {"load", "submit", "wait", "join", "display", "save"}

\* the file of bucket b can no longer be opened
FileFails(b) ==
  /\ Running
  /\ unwritable = {}
  /\ unwritable' = {b}
  /\ UNCHANGED <<inputVars, storeVars, poolVars, mainVars, histVars, proxies,
                 total_proxies, lock, drainLog, now, names, probeVars, scraperVars>>

\* the file can be opened again
FileRecovers ==
  /\ Running
  /\ unwritable # {}
  /\ unwritable' = {}
  /\ UNCHANGED <<inputVars, storeVars, poolVars, mainVars, histVars, proxies,
                 total_proxies, lock, drainLog, now, names, probeVars, scraperVars>>

FailInit == Init /\ source_ok

FailNext ==
  \/ Load
  \/ Submit
  \/ Wait
  \/ Join
  \/ Display
  \/ SaveBucket
  \/ \E w \in Workers : Take(w)
  \/ \E w \in Workers : Probe(w)
  \/ \E w \in Workers : Acquire(w)
  \/ \E w \in Workers : Count(w)
  \/ \E w \in Workers : AppendResults(w)
  \/ \E w \in Workers : Checkpoint(w)
  \/ \E w \in Workers : Release(w)
  \/ \E b \in Buckets : FileFails(b)
  \/ FileRecovers

SpecFail == FailInit /\ [][FailNext]_vars

\* ------------------------------------------------------------------------
\* Termination: runs without interrupt, with files that may fail, in which
\* every thread that can take a step eventually takes it.  A probe returns
\* because requests and socket calls carry timeout=self.timeout; the lock
\* is not fair, so a waiting worker is only promised the lock once it stays
\* free (weak fairness).  The two probe tables differ on these two
\* candidates only by exchanging the candidates and the bucket names, so one
\* of them is taken.
\* ------------------------------------------------------------------------
LiveInit ==
  /\ entry \in Entries
  /\ source_ok = TRUE
  /\ lines \in SeqsUpTo({<<"1.2.3.4:8080">>, <<"5.6.7.8:3128">>}, MaxLive)
  /\ net \in {n \in Nets : n[<<"1.2.3.4:8080">>] = {"http"}}
  /\ max_workers \in 1..MaxPool
  /\ save_interval \in 1..MaxInterval
  /\ bucket = [b \in Buckets |-> <<>>]
  /\ mainpc = "load"
  /\ Constructed
  /\ ProbesIdle
  /\ ScraperIdle

\* the files this run opens: both drains open the file of a bucket only
\* when the bucket has entries
OpenedFiles ==
  {b \in Buckets :
     \E e \in Range(lines) : IF b = "failed" THEN net[e] = {} ELSE b \in net[e]}

\* the next step of the main thread, wherever it is in run_check
MainThread ==
  \/ Load
  \/ Submit
  \/ Wait
  \/ Join
  \/ Display
  \/ SaveBucket

\* the next step of worker w, wherever it is in check_proxy
WorkerThread(w) ==
  \/ Take(w)
  \/ Probe(w)
  \/ Acquire(w)
  \/ Count(w)
  \/ AppendResults(w)
  \/ Checkpoint(w)
  \/ Release(w)

Progress == WF_vars(MainThread) /\ \A w \in Workers : WF_vars(WorkerThread(w))

LiveNext ==
  \/ Load
  \/ Submit
  \/ Wait
  \/ Join
  \/ Display
  \/ SaveBucket
  \/ \E w \in Workers : Take(w)
  \/ \E w \in Workers : Probe(w)
  \/ \E w \in Workers : Acquire(w)
  \/ \E w \in Workers : Count(w)
  \/ \E w \in Workers : AppendResults(w)
  \/ \E w \in Workers : Checkpoint(w)
  \/ \E w \in Workers : Release(w)
  \/ \E b \in OpenedFiles : FileFails(b)
  \/ FileRecovers

SpecLive == LiveInit /\ [][LiveNext]_vars /\ Progress

\* ------------------------------------------------------------------------
\* The two drains on their own: any buckets, then drains called one after
\* the other with no record in between
\* ------------------------------------------------------------------------
DrainInit ==
  /\ entry = "checker_main"
  /\ source_ok = TRUE
  /\ lines = <<>>
  /\ net \in Nets
  /\ max_workers = 1
  /\ save_interval = 1
  /\ bucket \in [Buckets -> SeqsUpTo({<<"1.2.3.4:8080">>, <<"5.6.7.8:3128">>},
                                     MaxBucket)]
  /\ mainpc = "drains"
  /\ Constructed
  /\ ProbesIdle
  /\ ScraperIdle

\* save_intermediate_results, lines 148-183
DrainIntermediate ==
  /\ mainpc = "drains"
  /\ Len(drainLog) < MaxDrains
  /\ LET st == save_intermediate_results(file, total, bucket, unwritable)
     IN /\ file' = st.file
        /\ total' = st.total
        /\ bucket' = st.bucket
        /\ last_save_count' = IF st.raised THEN last_save_count
                              ELSE checked_proxies
  /\ drainLog' = Append(drainLog, "intermediate")
  /\ UNCHANGED <<inputVars, poolVars, mainVars, histVars, proxies,
                 total_proxies, checked_proxies, lock, unwritable, now, names,
                 probeVars, scraperVars>>

\* save_results, lines 285-321
DrainFinal ==
  /\ mainpc = "drains"
  /\ Len(drainLog) < MaxDrains
  /\ LET st == save_results(file, total, bucket, unwritable)
     IN /\ file' = st.file
        /\ total' = st.total
  /\ drainLog' = Append(drainLog, "final")
  /\ UNCHANGED <<inputVars, poolVars, mainVars, histVars, proxies,
                 total_proxies, checked_proxies, last_save_count, bucket, lock,
                 unwritable, now, names, probeVars, scraperVars>>

DrainNext ==
  \/ DrainIntermediate
  \/ DrainFinal

SpecDrain == DrainInit /\ [][DrainNext]_vars

\* ------------------------------------------------------------------------
\* File names: ProxyChecker instances created while the wall clock advances,
\* all with the same working directory
\* ------------------------------------------------------------------------
\* line 51: time.strftime("%Y%m%d_%H%M%S"), the local time cut to the second
timestamp(t) == t \div TicksPerSecond

\* lines 52-58: one name per bucket, a fixed prefix and the timestamp
file_names(ts) ==
  [b \in Buckets |->
     <<IF b = "failed" THEN "failed_proxies_"
       ELSE "working_" \o b \o "_proxies_", ts, ".txt">>]

Tick ==
  /\ mainpc = "names"
  /\ now < MaxClock
  /\ now' = now + 1
  /\ UNCHANGED <<inputVars, storeVars, poolVars, mainVars, histVars, proxies,
                 total_proxies, lock, unwritable, drainLog, names, probeVars,
                 scraperVars>>

\* ProxyChecker(...): __init__ reads the clock and fixes the file names
Create ==
  /\ mainpc = "names"
  /\ Len(names) < MaxRuns
  /\ names' = Append(names, file_names(timestamp(now)))
  /\ UNCHANGED <<inputVars, storeVars, poolVars, mainVars, histVars, proxies,
                 total_proxies, lock, unwritable, drainLog, now, probeVars,
                 scraperVars>>

NamesInit ==
  /\ entry \in Entries
  /\ source_ok = TRUE
  /\ lines = <<>>
  /\ net \in Nets
  /\ max_workers = 1
  /\ save_interval = 1
  /\ bucket = [b \in Buckets |-> <<>>]
  /\ mainpc = "names"
  /\ Constructed
  /\ ProbesIdle
  /\ ScraperIdle

NamesNext ==
  \/ Tick
  \/ Create

SpecNames == NamesInit /\ [][NamesNext]_vars

\* ------------------------------------------------------------------------
\* The four probes on their own: one endpoint string, written as its text
\* with the colons apart, and for each dialect what the network does when
\* the probe gets as far as the network
\* ------------------------------------------------------------------------
ProbeStrings ==
  {<<"1.2.3.4", ":", "8080">>,
   <<"1.2.3.4">>,
   <<"1.2.3.4", ":", "x">>,
   <<"1.2.3.4", ":", "80", ":", "80">>,
   <<"1.2.3.4", ":", "99999">>}

\* texts that int() accepts, and those of them that are a port number
IntTexts == {<<"8080">>, <<"80">>, <<"99999">>}
PortTexts == {<<"8080">>, <<"80">>}

\* success: status 200, or the connect through the proxy completes;
\* bad_response: another status, or a reply that is not SOCKS
Behaviours == {"success", "bad_response", "timeout", "refused"}

\* proxy.split(':')
RECURSIVE split(_)
split(s) ==
  IF \A i \in 1..Len(s) : s[i] # ":"
  THEN <<s>>
  ELSE LET k == CHOOSE i \in 1..Len(s) :
                  s[i] = ":" /\ \A j \in 1..(i - 1) : s[j] # ":"
       IN <<SubSeq(s, 1, k - 1)>> \o split(SubSeq(s, k + 1, Len(s)))

\* lines 95-102 and 116-123: requests.get through f'http://{proxy}'.  The
\* proxy URL needs a host; a missing port is the default port of the
\* scheme; anything else that is not a port number makes requests raise.
\* Then the status decides: 200 returns True, any other falls through to
\* "return False", and every network error raises.
requests_get(proxy, b) ==
  LET parts == split(proxy)
  IN IF Len(parts) > 2 \/ parts[1] = <<>>
          \/ (Len(parts) = 2 /\ parts[2] \notin PortTexts)
     THEN "raised"
     ELSE CASE b = "success"      -> "returned_true"
            [] b = "bad_response" -> "fell_through"
            [] OTHER              -> "raised"

\* lines 132-143 and 188-199: the unpacking of split(':') needs exactly two
\* parts, int(port) a number, and connect a port number and a proxy that
\* completes the handshake; everything else raises
socks_connect(proxy, b) ==
  LET parts == split(proxy)
  IN IF Len(parts) # 2 THEN "raised"
     ELSE IF parts[2] \notin IntTexts THEN "raised"
     ELSE IF parts[2] \notin PortTexts \/ b # "success" THEN "raised"
     ELSE "returned_true"

\* lines 103-106 (and the same in the other three): "except: pass" and
\* "return False" after the try
Absorbed(attempt) == IF attempt = "returned_true" THEN "True" ELSE "False"

\* test_http_proxy, test_https_proxy, test_socks4_proxy, test_socks5_proxy
ProbeOutcome(d, proxy, b) ==
  Absorbed(IF d \in {"http", "https"} THEN requests_get(proxy, b)
           ELSE socks_connect(proxy, b))

ProbeInit ==
  /\ entry = "checker_main"
  /\ source_ok = TRUE
  /\ lines \in {<<s>> : s \in ProbeStrings}
  /\ net \in Nets
  /\ max_workers = 1
  /\ save_interval = 1
  /\ bucket = [b \in Buckets |-> <<>>]
  /\ mainpc = "probes"
  /\ Constructed
  /\ behaviour \in [Dialects -> Behaviours]
  /\ outcome = [d \in Dialects |-> "none"]
  /\ ScraperIdle

\* lines 214-228: the probes are called one after the other
RunProbe(d) ==
  /\ mainpc = "probes"
  /\ outcome[d] = "none"
  /\ \A j \in 1..4 :
       BucketOrder[j] = d => \A k \in 1..(j - 1) : outcome[BucketOrder[k]] # "none"
  /\ outcome' = [outcome EXCEPT ![d] = ProbeOutcome(d, lines[1], behaviour[d])]
  /\ UNCHANGED <<inputVars, storeVars, poolVars, mainVars, histVars, proxies,
                 total_proxies, lock, unwritable, drainLog, now, names, behaviour,
                 scraperVars>>

\* lines 231-244: the record of the candidate with the four outcomes
RecordProbed ==
  /\ mainpc = "probes"
  /\ \A d \in Dialects : outcome[d] \in {"True", "False"}
  /\ checked_proxies' = checked_proxies + 1
  /\ bucket' = Appended(bucket, [d \in Dialects |-> outcome[d] = "True"], lines[1])
  /\ mainpc' = "probed"
  /\ UNCHANGED <<inputVars, poolVars, histVars, proxies, total_proxies, lock,
                 last_save_count, total, file, submitted, savei, interrupted,
                 raising, reported, reported_tested, saveCalls, sideVars>>

ProbeNext ==
  \/ \E d \in Dialects : RunProbe(d)
  \/ RecordProbed

SpecProbe == ProbeInit /\ [][ProbeNext]_vars

\* ------------------------------------------------------------------------
\* The scraper: ProxyScraper.__init__ loads proxy_list.txt, then the
\* scrape_page workers of scrape_urls go through what their pages hold.
\* lines is proxy_list.txt as found at start-up, source_ok whether it can
\* be read then.
\* ------------------------------------------------------------------------
ExistingLines ==
  {<<"1.2.3.4:8080">>, <<"1.2.3.4:8080", " ">>, <<"9.9.9.9:1080">>}

\* what extract_proxies_from_text can return: validated IP:PORT strings
\* without whitespace
ScrapedProxies == {<<"1.2.3.4:8080">>, <<"5.6.7.8:3128">>}

ScrapeInit ==
  /\ entry = "tool_main"
  /\ source_ok \in BOOLEAN
  /\ lines \in SeqsUpTo(ExistingLines, MaxRaw)
  /\ net = CHOOSE n \in Nets : TRUE
  /\ max_workers \in 1..MaxPool
  /\ save_interval = 1
  /\ bucket = [b \in Buckets |-> <<>>]
  /\ mainpc = "scraper_init"
  /\ Constructed
  /\ ProbesIdle
  /\ all_proxies = {}
  /\ proxy_file = lines
  /\ scraper_lock = NoOwner
  /\ spc = [w \in Workers |-> "start"]
  /\ found = [w \in Workers |-> {}]
  /\ cur = [w \in Workers |-> <<>>]

\* lines 58-67: set(line.strip() for line in f if line.strip()); an
\* exception leaves all_proxies empty
load_existing_proxies(ok, raw) ==
  IF ok THEN Range(all_lines(raw)) ELSE {}

LoadExisting ==
  /\ mainpc = "scraper_init"
  /\ all_proxies' = all_proxies \cup load_existing_proxies(source_ok, lines)
  /\ mainpc' = "scraping"
  /\ UNCHANGED <<inputVars, storeVars, poolVars, histVars, proxies, total_proxies,
                 lock, submitted, savei, interrupted, raising, reported,
                 reported_tested, saveCalls, unwritable, drainLog, now, names,
                 probeVars, proxy_file, scraper_lock, spc, found, cur>>

scrapeFrame == <<inputVars, storeVars, poolVars, mainVars, histVars, proxies,
                 total_proxies, lock, unwritable, drainLog, now, names, probeVars>>

\* lines 118-131: the page is fetched and its proxies extracted; an error
\* or a page without proxies gives the empty set
Fetch(w) ==
  /\ mainpc = "scraping"
  /\ InPool(w, max_workers)
  /\ spc[w] = "start"
  /\ \E page \in SUBSET ScrapedProxies : found' = [found EXCEPT ![w] = page]
  /\ spc' = [spc EXCEPT ![w] = "loop"]
  /\ UNCHANGED <<scrapeFrame, all_proxies, proxy_file, scraper_lock, cur>>

\* lines 134-135: the next proxy of the page, and "with self.lock"
EnterLock(w) ==
  /\ spc[w] = "loop"
  /\ found[w] # {}
  /\ LockFree(scraper_lock)
  /\ \E proxy \in found[w] :
       /\ cur' = [cur EXCEPT ![w] = proxy]
       /\ found' = [found EXCEPT ![w] = @ \ {proxy}]
  /\ scraper_lock' = w
  /\ spc' = [spc EXCEPT ![w] = "test"]
  /\ UNCHANGED <<scrapeFrame, all_proxies, proxy_file>>

\* line 137: if proxy not in self.all_proxies; otherwise the with block ends
TestNew(w) ==
  /\ spc[w] = "test"
  /\ IF cur[w] \in all_proxies
     THEN /\ scraper_lock' = NoOwner
          /\ spc' = [spc EXCEPT ![w] = "loop"]
     ELSE /\ scraper_lock' = scraper_lock
          /\ spc' = [spc EXCEPT ![w] = "add"]
  /\ UNCHANGED <<scrapeFrame, all_proxies, proxy_file, found, cur>>

\* lines 138-139
AddNew(w) ==
  /\ spc[w] = "add"
  /\ all_proxies' = all_proxies \cup {cur[w]}
  /\ spc' = [spc EXCEPT ![w] = "save"]
  /\ UNCHANGED <<scrapeFrame, proxy_file, scraper_lock, found, cur>>

\* line 142 with save_proxy_instantly (lines 69-76): the line is appended,
\* or the error of open/write is printed and nothing is written; then the
\* with block ends
SaveInstantly(w) ==
  /\ spc[w] = "save"
  /\ \E written \in BOOLEAN :
       proxy_file' = IF written THEN Append(proxy_file, cur[w]) ELSE proxy_file
  /\ scraper_lock' = NoOwner
  /\ spc' = [spc EXCEPT ![w] = "loop"]
  /\ UNCHANGED <<scrapeFrame, all_proxies, found, cur>>

\* lines 144-170: the loop is over and scrape_page returns.  A pagination
\* link makes it call itself for the next page, which goes through the
\* same loop as the page of another worker does
PageDone(w) ==
  /\ spc[w] = "loop"
  /\ found[w] = {}
  /\ spc' = [spc EXCEPT ![w] = "done"]
  /\ UNCHANGED <<scrapeFrame, all_proxies, proxy_file, scraper_lock, found, cur>>

ScrapeNext ==
  \/ LoadExisting
  \/ \E w \in Workers : Fetch(w)
  \/ \E w \in Workers : EnterLock(w)
  \/ \E w \in Workers : TestNew(w)
  \/ \E w \in Workers : AddNew(w)
  \/ \E w \in Workers : SaveInstantly(w)
  \/ \E w \in Workers : PageDone(w)

SpecScrape == ScrapeInit /\ [][ScrapeNext]_vars

\* ------------------------------------------------------------------------
\* Vocabulary of the properties
\* ------------------------------------------------------------------------
RecordSection == {"count", "append", "checkpoint", "progress"}

\* candidates (indices into proxies) whose appends are done
RecordedTasks ==
  {i \in 1..Len(fut) : fut[i] = "finished"}
    \cup {task[w] : w \in {v \in Workers : wpc[v] \in {"checkpoint", "progress"}}}

InLog(e, b) == \E k \in DOMAIN appendLog[b] : appendLog[b][k] = e

\* run_check and the final drain went through, no interrupt was raised
NormalEnd == mainpc = "done" /\ ~interrupted

RECURSIVE SumOver(_, _)
SumOver(f, S) ==
  IF S = {} THEN 0
  ELSE LET x == CHOOSE y \in S : TRUE IN f[x] + SumOver(f, S \ {x})

\* number of endpoints written to the five files
FileSum == SumOver([b \in Buckets |-> Len(file[b])], Buckets)

Max(a, b) == IF a >= b THEN a ELSE b

\* candidates of this run that the probe layer puts into bucket b
Expected(b) ==
  {e \in Range(lines) : IF b = "failed" THEN net[e] = {} ELSE b \in net[e]}

\* ------------------------------------------------------------------------
\* C1: every recorded candidate is in the failed bucket if and only if it is
\* in none of the four working buckets, counting everything ever appended
\* (in memory or drained): never failed and working at once, never in no
\* bucket.
\* ------------------------------------------------------------------------
C1_ClassificationComplete ==
  \A i \in RecordedTasks :
    InLog(proxies[i], "failed") <=> (\A d \in Dialects : ~InLog(proxies[i], d))

\* one recorded candidate failed, another works for two dialects, part of
\* the appends is drained and part still in memory
C1_Witness ==
  /\ \E i \in RecordedTasks : InLog(proxies[i], "failed")
  /\ \E i \in RecordedTasks :
       Cardinality({d \in Dialects : InLog(proxies[i], d)}) >= 2
  /\ \E b \in Buckets : file[b] # <<>>
  /\ \E b \in Buckets : bucket[b] # <<>>

\* ------------------------------------------------------------------------
\* C2: at most one worker at a time is inside the record section (count,
\* appends, failed decision, checkpoint with its inline drain, progress).
\* ------------------------------------------------------------------------
C2_OneInRecord ==
  Cardinality({w \in Workers : wpc[w] \in RecordSection}) <= 1

\* a worker is about to drain inline while another one waits for the lock
C2_Witness ==
  \E w, v \in Workers :
    /\ wpc[w] = "checkpoint"
    /\ BoundaryCrossed(checked_proxies, last_save_count, save_interval)
    /\ wpc[v] = "lock"

\* ------------------------------------------------------------------------
\* C3: in a run that completes without interrupt the record section runs
\* exactly once per endpoint of the deduplicated list: checked_proxies is
\* the number of unique candidates and every one of them is recorded once.
\* ------------------------------------------------------------------------
C3_RecordedExactlyOnce ==
  NormalEnd =>
    /\ checked_proxies = Cardinality(Range(lines))
    /\ \A e \in Endpoints :
         recordCount[e] = IF e \in Range(lines) THEN 1 ELSE 0

\* a completed run over a file with a duplicate line, two workers
C3_Witness ==
  /\ NormalEnd
  /\ Len(lines) > Cardinality(Range(lines))
  /\ Cardinality(Range(lines)) >= 2
  /\ max_workers >= 2

\* ------------------------------------------------------------------------
\* C4 as stated: at the end of a run the number of endpoints written to the
\* five files equals checked_proxies.
\* ------------------------------------------------------------------------
C4_WrittenEqualsChecked == NormalEnd => FileSum = checked_proxies

\* C4 amended: at the end of a run that completes without interrupt the
\* number of endpoints written to the five files is the sum over the
\* candidates of max(1, number of successful probes); it is never below
\* checked_proxies and equals it exactly when no candidate has more than
\* one successful probe.
C4_WrittenCountsEveryAppend ==
  NormalEnd =>
    /\ FileSum = SumOver([e \in Endpoints |-> Max(1, Cardinality(net[e]))],
                         Range(lines))
    /\ FileSum >= checked_proxies
    /\ (FileSum = checked_proxies)
         <=> (\A e \in Range(lines) : Cardinality(net[e]) <= 1)

\* a completed run with an interval checkpoint, a remainder for the final
\* drain and a candidate in more than one bucket
C4_Witness ==
  /\ NormalEnd
  /\ 0 < last_save_count
  /\ last_save_count < checked_proxies
  /\ FileSum > checked_proxies

\* ------------------------------------------------------------------------
\* C5: when a run completes normally every endpoint appears in the file of
\* each bucket it was appended to exactly once: nothing is left unwritten
\* and nothing is written twice.
\* ------------------------------------------------------------------------
C5_WrittenExactlyOnce ==
  NormalEnd =>
    \A b \in Buckets : \A e \in Endpoints :
      /\ Occ(e, file[b]) = Occ(e, appendLog[b])
      /\ Occ(e, file[b]) <= 1

\* a completed run with fewer candidates than the save interval
C5_Witness ==
  /\ NormalEnd
  /\ 0 < checked_proxies
  /\ checked_proxies < save_interval
  /\ last_save_count = 0
  /\ \E b \in Buckets : file[b] # <<>>

\* ------------------------------------------------------------------------
\* C6: in a run started by proxy_checker.main the final drain save_results
\* is performed exactly once on every termination path, wherever the
\* interrupt arrives: never skipped, never a second time.
\* ------------------------------------------------------------------------
C6_FinalDrainExactlyOnce ==
  (entry = "checker_main" /\ proxies # <<>>) =>
    /\ saveCalls <= 1
    /\ (mainpc = "done" => saveCalls = 1)

\* ------------------------------------------------------------------------
\* C7: after the interrupt no candidate that had not yet started evaluation
\* begins evaluation.
\* ------------------------------------------------------------------------
C7_NoStartAfterInterrupt ==
  [][interrupted =>
       \A i \in 1..Len(fut) : fut[i] = "pending" => fut'[i] = "pending"]_vars

\* ------------------------------------------------------------------------
\* C8: on an interrupt, from either entry point, every candidate already
\* recorded ends up in the file of each bucket it was appended to.
\* ------------------------------------------------------------------------
C8_RecordedSurviveInterrupt ==
  (interrupted /\ mainpc \in {"done", "crashed"}) =>
    \A b \in Buckets : \A e \in Range(appendLog[b]) : e \in Range(file[b])

\* ------------------------------------------------------------------------
\* C9: the per-bucket totals printed by the end-of-run summary equal the
\* number of candidates recorded into each bucket over the whole run.
\* ------------------------------------------------------------------------
C9_SummaryReportsWholeRun ==
  (NormalEnd /\ saveCalls > 0) =>
    \A b \in Buckets : reported[b] = Len(appendLog[b])

\* ------------------------------------------------------------------------
\* C10: with a deterministic probe layer the final totals and the set of
\* endpoints in each file after a normally completed run depend on the
\* candidate set and the probe layer only, not on the pool size or the
\* interleaving.
\* ------------------------------------------------------------------------
C10_DeterministicOutcome ==
  NormalEnd =>
    \A b \in Buckets :
      /\ total[b] = Cardinality(Expected(b))
      /\ Range(file[b]) = Expected(b)

\* a completed run of three candidates on two workers with a bucket that
\* received two endpoints
C10_Witness ==
  /\ NormalEnd
  /\ max_workers >= 2
  /\ Cardinality(Range(lines)) >= 3
  /\ \E b \in Buckets : total[b] >= 2

\* ------------------------------------------------------------------------
\* C11: at every moment at most max_workers candidates are in evaluation
\* (check_proxy started and not yet returned); every other submitted
\* candidate that is not finished waits in the queue.
\* ------------------------------------------------------------------------
InEvaluation == {i \in 1..Len(fut) : fut[i] = "running"}

C11_AtMostWInFlight ==
  /\ Cardinality(InEvaluation) <= max_workers
  /\ \A i \in 1..Len(fut) : fut[i] = "pending" <=> i \in Range(queue)

\* the pool is full, smaller than the model's thread set, and work waits
C11_Witness ==
  /\ Cardinality(InEvaluation) = max_workers
  /\ max_workers < MaxPool
  /\ queue # <<>>

\* ------------------------------------------------------------------------
\* C12: a drain called twice in succession with no record in between
\* writes nothing to any file on the second call and leaves the totals
\* unchanged; and no drain writes the file of a bucket that is empty.
\* ------------------------------------------------------------------------
DrainCalled == Len(drainLog') > Len(drainLog)

SameDrainAgain ==
  /\ DrainCalled
  /\ drainLog # <<>>
  /\ drainLog[Len(drainLog)] = drainLog'[Len(drainLog')]

C12_DrainIdempotent ==
  [][/\ SameDrainAgain => (file' = file /\ total' = total)
     /\ DrainCalled =>
          \A b \in Buckets : bucket[b] = <<>> => file'[b] = file[b]]_vars

\* ------------------------------------------------------------------------
\* C13: when a drain cannot write one bucket's file the run goes on, the
\* unwritten endpoints stay in memory with their totals not yet increased,
\* and a later drain writes them: at run end every recorded endpoint whose
\* file is writable has been written exactly once.
\* ------------------------------------------------------------------------
Ended == mainpc \in {"done", "error", "crashed"}

C13_UnwrittenRetainedAndRetried ==
  /\ \A b \in Buckets : total[b] <= Len(file[b])
  /\ (mainpc \in {"submit", "wait", "join", "display"}) =>
       \A b \in Buckets : file[b] \o bucket[b] = appendLog[b]
  /\ Ended =>
       \A b \in Buckets \ unwritable :
         \A e \in Range(appendLog[b]) : Occ(e, file[b]) = 1


\* ------------------------------------------------------------------------
\* C14: no two threads ever write output files or drain buckets at the same
\* time: at most one worker is inside the record section (where the interval
\* drain runs), and while the final drain save_results is running in the
\* main thread no worker is inside the record section
\* ------------------------------------------------------------------------
InRecord == {w \in Workers : wpc[w] \in RecordSection}

FinalDrainRunning == mainpc = "save"

C14_DrainsExclusive ==
  /\ Cardinality(InRecord) <= 1
  /\ FinalDrainRunning => InRecord = {}


\* ------------------------------------------------------------------------
\* C15: when the candidate source cannot be read, or holds no non-blank
\* line, load_proxies returns the empty list and run_check ends the run:
\* no probe is started, no counter or bucket changes, no output file is
\* written.
\* ------------------------------------------------------------------------
BlankOnly ==
  \A i \in 1..Len(lines) : \A j \in 1..Len(lines[i]) : lines[i][j] \in Whitespace

NothingStarted ==
  /\ fut = <<>>
  /\ queue = <<>>
  /\ submitted = 0
  /\ \A w \in Workers : wpc[w] = "idle"

NothingChanged ==
  /\ total_proxies = 0
  /\ checked_proxies = 0
  /\ last_save_count = 0
  /\ \A b \in Buckets : total[b] = 0 /\ bucket[b] = <<>> /\ file[b] = <<>>
  /\ saveCalls = 0

C15_NoSourceNoRun ==
  (~source_ok \/ BlankOnly) =>
    /\ mainpc # "load" => proxies = <<>>
    /\ (mainpc # "load" /\ ~interrupted) => mainpc = "done"
    /\ NothingStarted
    /\ NothingChanged

\* the run over an unreadable file that holds an endpoint has ended
C15_Witness ==
  /\ ~source_ok
  /\ \E i \in 1..Len(lines) : strip(lines[i]) \in Endpoints
  /\ mainpc = "done"
  /\ ~interrupted


\* ------------------------------------------------------------------------
\* C16: for every recorded candidate each working bucket received the
\* endpoint if and only if its own probe succeeded, whatever the other
\* three probes returned, and once only: a candidate with k successful
\* probes is in exactly k working buckets.
\* ------------------------------------------------------------------------
WorkingBucketsOf(e) == {d \in Dialects : InLog(e, d)}

C16_IndependentProbes ==
  \A i \in RecordedTasks :
    /\ \A d \in Dialects :
         /\ InLog(proxies[i], d) <=> d \in net[proxies[i]]
         /\ Occ(proxies[i], appendLog[d]) <= 1
    /\ Cardinality(WorkingBucketsOf(proxies[i])) = Cardinality(net[proxies[i]])

\* a recorded candidate whose SOCKS4 probe failed after two successes and
\* whose SOCKS5 probe then succeeded, next to one whose HTTP probe alone
\* succeeded
C16_Witness ==
  /\ \E i \in RecordedTasks :
       /\ net[proxies[i]] = {"http", "https", "socks5"}
       /\ WorkingBucketsOf(proxies[i]) = {"http", "https", "socks5"}
  /\ \E i \in RecordedTasks : WorkingBucketsOf(proxies[i]) = {"http"}


\* ------------------------------------------------------------------------
\* C17: load_proxies returns a list without repeated element whose elements
\* are exactly the distinct trimmed non-empty lines of the source; its
\* length becomes total_proxies; the number of duplicates it reports is the
\* number of non-empty trimmed lines minus that length; 1.2.3.4:80 and
\* 1.2.3.4:080 are two entries.
\* ------------------------------------------------------------------------
Blank(line) == \A j \in 1..Len(line) : line[j] \in Whitespace

\* the text of a non-blank line from its first to its last character that
\* is not whitespace
Core(line) ==
  LET text == {j \in 1..Len(line) : line[j] \notin Whitespace}
      first == CHOOSE j \in text : \A k \in text : j <= k
      last == CHOOSE j \in text : \A k \in text : j >= k
  IN SubSeq(line, first, last)

NonBlank == {i \in 1..Len(lines) : ~Blank(lines[i])}

Trimmed == {Core(lines[i]) : i \in NonBlank}

Loaded == source_ok /\ mainpc # "load"

C17_LoadDeduplicates ==
  Loaded =>
    /\ \A i, j \in 1..Len(proxies) : proxies[i] = proxies[j] => i = j
    /\ Range(proxies) = Trimmed
    /\ total_proxies = Len(proxies)
    /\ total_proxies = Cardinality(Trimmed)
    /\ duplicates_removed(lines) = Cardinality(NonBlank) - total_proxies
    /\ {<<"1.2.3.4:80">>, <<"1.2.3.4:080">>} \subseteq Trimmed => total_proxies >= 2

\* three different lines, two of them the same endpoint with different
\* whitespace, the third the same address with the port spelled 080
C17_Witness ==
  /\ Loaded
  /\ Len(lines) = 3
  /\ \A i, j \in 1..3 : lines[i] = lines[j] => i = j
  /\ proxies \in {<<<<"1.2.3.4:80">>, <<"1.2.3.4:080">>>>,
                  <<<<"1.2.3.4:080">>, <<"1.2.3.4:80">>>>}
  /\ duplicates_removed(lines) = 1
  /\ \E i \in 1..3 : lines[i] = <<"\t", "1.2.3.4:80", " ", "\t">>


\* ------------------------------------------------------------------------
\* C18: two distinct runs never append to the same output file: the file
\* names of a ProxyChecker instance differ from those of every other
\* instance, whenever the two are created.
\* ------------------------------------------------------------------------
C18_FreshFileNames ==
  \A i, j \in 1..Len(names) :
    i # j => \A b, c \in Buckets : names[i][b] # names[j][c]


\* ------------------------------------------------------------------------
\* C19: when a run is cancelled after k of n candidates have been recorded,
\* k < n, the summary printed on the cancellation path gives k
\* (checked_proxies) as the number of proxies tested.
\* ------------------------------------------------------------------------
CancelledSummaryPrinted == interrupted /\ mainpc \in {"save", "done"}

C19_CancelledSummaryReportsChecked ==
  (CancelledSummaryPrinted /\ checked_proxies < total_proxies) =>
    reported_tested = checked_proxies


\* ------------------------------------------------------------------------
\* C20: whenever no thread is inside the record section (and no drain has
\* failed), 0 <= last_save_count <= checked_proxies and checked_proxies -
\* last_save_count < save_interval.  The record that brings the difference
\* to save_interval drains every bucket to its file, adds the drained
\* lengths to the totals, clears the buckets and sets last_save_count to
\* checked_proxies while it still holds the lock; interval drains happen at
\* every save_interval-th record and at no other.
\* ------------------------------------------------------------------------
CountersInStep ==
  /\ 0 <= last_save_count
  /\ last_save_count <= checked_proxies
  /\ checked_proxies - last_save_count < save_interval

LeavesCheckpoint(w) == wpc[w] = "checkpoint" /\ wpc'[w] # "checkpoint"

IntervalDrained ==
  /\ \A b \in Buckets :
       /\ file'[b] = file[b] \o bucket[b]
       /\ total'[b] = total[b] + Len(bucket[b])
       /\ bucket'[b] = <<>>
  /\ last_save_count' = checked_proxies

C20_CheckpointEveryInterval ==
  [][/\ (InRecord = {} /\ unwritable = {}) => CountersInStep
     /\ (InRecord' = {} /\ unwritable' = {}) => CountersInStep'
     /\ \A w \in Workers :
          LeavesCheckpoint(w) =>
            /\ lock = w /\ lock' = w
            /\ IF checked_proxies % save_interval = 0
               THEN IntervalDrained
               ELSE UNCHANGED <<file, total, bucket, last_save_count>>
     /\ (\A w \in Workers : ~LeavesCheckpoint(w)) =>
          UNCHANGED last_save_count]_vars

\* after the checkpoint of the second record at interval 2 a third record
\* has gone through: one bucket is on file, another still in memory
C20_Witness ==
  /\ InRecord = {}
  /\ save_interval = 2
  /\ last_save_count = 2
  /\ checked_proxies = 3
  /\ \E b \in Buckets : file[b] # <<>>
  /\ \E b \in Buckets : bucket[b] # <<>>


\* ------------------------------------------------------------------------
\* C21: a candidate enters the record section only with the outcomes of all
\* four probes in hand, and its count and all its appends happen in one
\* lock-held section: whenever the lock is free every endpoint is in all
\* of the buckets it belongs to or in none, and checked_proxies counts
\* exactly the endpoints that are in all of them.
\* ------------------------------------------------------------------------
BelongsTo(e) ==
  {b \in Buckets : IF b = "failed" THEN net[e] = {} ELSE b \in net[e]}

AppendedTo(e) == {b \in Buckets : InLog(e, b)}

FullyAppended == {e \in Endpoints : AppendedTo(e) = BelongsTo(e)}

C21_RecordedWhole ==
  /\ \A w \in Workers :
       wpc[w] \in RecordSection \cup {"lock"} =>
         \A d \in Dialects : results[w][d] <=> d \in net[proxies[task[w]]]
  /\ lock = NoOwner =>
       /\ \A e \in Endpoints :
            LET appended == AppendedTo(e)
                whole == BelongsTo(e)
            IN  /\ appended = {} \/ appended = whole
                /\ recordCount[e] = (IF appended = whole THEN 1 ELSE 0)
       /\ checked_proxies = Cardinality(FullyAppended)

\* the lock is free, a candidate of three buckets is recorded, one worker
\* has its four outcomes and waits for the lock, another is still probing
C21_Witness ==
  /\ lock = NoOwner
  /\ \E e \in FullyAppended : Cardinality(BelongsTo(e)) = 3
  /\ \E w, v \in Workers : wpc[w] = "lock" /\ wpc[v] = "probe"


\* ------------------------------------------------------------------------
\* C22: if every probe returns and every thread that can run eventually
\* runs, a run over a non-empty candidate set terminates: every candidate
\* is recorded, the pool shuts down, the summary is printed and the final
\* drain is entered and left; failed probes and a record that raises do
\* not keep the other candidates from being recorded.
\* ------------------------------------------------------------------------
RunStarted == mainpc = "submit"

RunOver ==
  /\ Ended
  /\ PoolDrained
  /\ checked_proxies = total_proxies
  /\ \A e \in Range(proxies) : recordCount[e] = 1
  /\ saveCalls = 1

C22_RunTerminates == RunStarted ~> RunOver

\* a finished run of two candidates at save_interval 1 in which one
\* candidate failed every probe and one checkpoint raised
C22_Witness ==
  /\ RunOver
  /\ mainpc = "done"
  /\ total_proxies = 2
  /\ save_interval = 1
  /\ last_save_count < checked_proxies
  /\ appendLog["failed"] # <<>>


\* ------------------------------------------------------------------------
\* C23: each probe returns a boolean for every endpoint string and every
\* network behaviour and never raises; it returns true only when the
\* dialect's success condition is met, and false for every timeout,
\* refusal, bad response or malformed endpoint string; a candidate that
\* fails all four is recorded in the failed bucket only.
\* ------------------------------------------------------------------------
\* an endpoint is a host:port pair, host non-empty, port a port number
WellFormed(s) ==
  /\ Len(split(s)) = 2
  /\ split(s)[1] # <<>>
  /\ split(s)[2] \in PortTexts

C23_ProbesAbsorbEveryFailure ==
  /\ \A d \in Dialects :
       /\ outcome[d] \in {"none", "True", "False"}
       /\ outcome[d] = "True" => behaviour[d] = "success"
       /\ (outcome[d] # "none" /\ (behaviour[d] # "success" \/ ~WellFormed(lines[1])))
            => outcome[d] = "False"
  /\ (mainpc = "probed" /\ \A d \in Dialects : outcome[d] = "False") =>
       \A b \in Buckets :
         bucket[b] = IF b = "failed" THEN <<lines[1]>> ELSE <<>>


\* ------------------------------------------------------------------------
\* C24: the progress step at the end of the record section only reads: it
\* changes no counter, bucket, total or file, and it cannot fail, because
\* total_proxies, by which it divides, is at least 1 whenever a worker
\* reaches it; the step contributes nothing to the final buckets, totals
\* and files.
\* ------------------------------------------------------------------------
AtProgress(w) == wpc[w] = "progress"

C24_ProgressReadsOnly ==
  [][\A w \in Workers :
       AtProgress(w) =>
         /\ total_proxies >= 1
         /\ total_proxies = Len(proxies)
         /\ ~AtProgress(w)' =>
              UNCHANGED <<checked_proxies, total_proxies, last_save_count,
                          bucket, total, file, appendLog, recordCount>>]_vars

\* a worker is at the progress line right after its record crossed the
\* boundary and drained, with more candidates to come
C24_Witness ==
  \E w \in Workers :
    /\ AtProgress(w)
    /\ last_save_count = checked_proxies
    /\ checked_proxies < total_proxies
    /\ \E b \in Buckets : file[b] # <<>>


\* ------------------------------------------------------------------------
\* C25: from one step of a run to the next checked_proxies,
\* last_save_count and the five cumulative totals never decrease, and
\* checked_proxies never exceeds total_proxies.
\* ------------------------------------------------------------------------
C25_CountersMonotone ==
  [][/\ checked_proxies' >= checked_proxies
     /\ last_save_count' >= last_save_count
     /\ \A b \in Buckets : total'[b] >= total[b]
     /\ checked_proxies <= total_proxies
     /\ checked_proxies' <= total_proxies']_vars

\* every counter has moved: an interval drain is behind, a record after
\* it, a candidate still to be recorded
C25_Witness ==
  /\ 0 < last_save_count
  /\ last_save_count < checked_proxies
  /\ checked_proxies < total_proxies
  /\ \E b \in Buckets : total[b] > 0


\* ------------------------------------------------------------------------
\* C26: for each bucket, whenever no thread is inside the record section
\* or a drain, the states after the final drain included: the cumulative
\* total plus the length of the in-memory bucket is the number of
\* candidates recorded into the bucket so far, and the number of endpoints
\* written to the bucket's file is the cumulative total.
\* ------------------------------------------------------------------------
Quiescent == InRecord = {} /\ ~FinalDrainRunning

C26_TotalPlusLiveIsRecorded ==
  Quiescent =>
    \A b \in Buckets :
      /\ total[b] + Len(bucket[b]) = Len(appendLog[b])
      /\ Len(file[b]) = total[b]


\* ------------------------------------------------------------------------
\* C27: a record that does not cross the checkpoint boundary leaves the
\* five totals, last_save_count and every file unchanged and changes only
\* checked_proxies (+1) and the buckets of the recorded endpoint; a drain
\* leaves checked_proxies and total_proxies unchanged and changes no
\* bucket, total or file of a bucket that was empty.
\* ------------------------------------------------------------------------
Crossing(w) ==
  /\ wpc[w] = "checkpoint"
  /\ BoundaryCrossed(checked_proxies, last_save_count, save_interval)

\* worker w takes a step of its record other than an interval drain
RecordStep(w) ==
  /\ wpc[w] \in RecordSection
  /\ wpc'[w] # wpc[w]
  /\ ~Crossing(w)

\* an interval drain, or one block of the final drain
DrainStep ==
  \/ \E w \in Workers : Crossing(w) /\ wpc'[w] # wpc[w]
  \/ mainpc = "save" /\ interrupted' = interrupted

C27_RecordAndDrainFrames ==
  [][/\ \A w \in Workers :
          RecordStep(w) =>
            /\ UNCHANGED <<total, last_save_count, file, total_proxies>>
            /\ checked_proxies' =
                 checked_proxies + (IF wpc[w] = "count" THEN 1 ELSE 0)
            /\ \A b \in Buckets :
                 bucket'[b] =
                   IF wpc[w] = "append" /\ b \in BelongsTo(proxies[task[w]])
                   THEN Append(bucket[b], proxies[task[w]])
                   ELSE bucket[b]
     /\ DrainStep =>
          /\ UNCHANGED <<checked_proxies, total_proxies>>
          /\ \A b \in Buckets :
               bucket[b] = <<>> =>
                 /\ bucket'[b] = <<>>
                 /\ total'[b] = total[b]
                 /\ file'[b] = file[b]]_vars

\* two records crossed the boundary of interval 2 and were drained, a
\* third did not cross; one bucket never held anything and has no file
C27_Witness ==
  /\ InRecord = {}
  /\ save_interval = 2
  /\ last_save_count = 2
  /\ checked_proxies = 3
  /\ \E b \in Buckets : bucket[b] # <<>> /\ Len(file[b]) = total[b]
  /\ \E b \in Buckets : appendLog[b] = <<>> /\ file[b] = <<>> /\ total[b] = 0


\* ------------------------------------------------------------------------
\* C28: in the scraper, under any interleaving of the scrape_page workers,
\* each distinct proxy string is appended to proxy_list.txt at most once
\* during a scrape, only when it was added to all_proxies, and a proxy of
\* the list loaded at start-up is never appended again.
\* ------------------------------------------------------------------------
AppendedLines == SubSeq(proxy_file, Len(lines) + 1, Len(proxy_file))

LoadedAtStart == IF source_ok THEN Trimmed ELSE {}

C28_AppendedAtMostOnce ==
  /\ SubSeq(proxy_file, 1, Len(lines)) = lines
  /\ \A p \in Range(AppendedLines) :
       /\ Occ(p, AppendedLines) = 1
       /\ p \in all_proxies
       /\ p \notin LoadedAtStart
  /\ mainpc = "scraping" => LoadedAtStart \subseteq all_proxies

\* two workers are on pages that hold the same proxy: one has appended it
\* and holds the lock again for its next proxy, the other still has it to
\* go through; a proxy loaded with trailing whitespace was on a page and
\* was not appended
C28_Witness ==
  /\ <<"1.2.3.4:8080", " ">> \in Range(lines)
  /\ source_ok
  /\ AppendedLines = <<<<"5.6.7.8:3128">>>>
  /\ \E w, v \in Workers :
       /\ w # v
       /\ spc[w] = "test" /\ cur[w] = <<"1.2.3.4:8080">>
       /\ <<"5.6.7.8:3128">> \in found[v]

====
